---- MODULE Spec2Model ----
(***************************************************************************)
(* Model of the abc_staking program (src/lib.rs): one Pool account, the    *)
(* UserStake records of its participants, the SPL token balances of the    *)
(* vault and of the participants, and the Solana clock sysvar.             *)
(*                                                                         *)
(* TLC's integers are 32 bits wide, so the machine widths are scaled: an   *)
(* unsigned 64-bit word of the program is WordBits bits wide here, a       *)
(* 128-bit word is 2*WordBits bits wide, a signed 64-bit timestamp is      *)
(* TsBits bits wide, and a year lasts YearSeconds seconds.  Every checked, *)
(* saturating or truncating operation is kept, at the scaled width.        *)
(* Supply tokens exist; the clock runs from 0 to MaxClock.                 *)
(***************************************************************************)
EXTENDS Integers, FiniteSets, Sequences, TLC

\* ---------------------------------------------------------------- bounds
WordBits == 3
TsBits == 4
YearSeconds == 1
MaxClock == 2
Supply == 2

\* ------------------------------------------------------------- constants
SECONDS_PER_YEAR == YearSeconds
FP_SHIFT == WordBits
FP_ONE == 2 ^ FP_SHIFT
MAX_APY_BPS == 10000
BPS_DENOM == 10000

U64_MAX == (2 ^ WordBits) - 1
U128_MAX == (2 ^ (2 * WordBits)) - 1
I64_MAX == (2 ^ (TsBits - 1)) - 1
I64_MIN == 0 - (2 ^ (TsBits - 1))

Admin == "admin"
Participants == {"A", "B"}
\* the signers the admin instructions are called by
Signers == {Admin, "A"}

\* inputs the operations are called with; the pool keeps the rate it was
\* initialized with here, and RateSpec below changes it
Amounts == {0, 1}
ApySet == {7500, 10001}
LockupSet == {0, 2}
Offsets == {0 - 1, 0}

\* the value of a failed checked_add / checked_mul / checked_sub (None)
None == 0 - 1

\* --------------------------------------------------------------- helpers
Min(a, b) == IF a <= b THEN a ELSE b
Max(a, b) == IF a >= b THEN a ELSE b

\* i64::saturating_add, i64::saturating_sub
saturating_add(a, b) == Max(I64_MIN, Min(I64_MAX, a + b))
saturating_sub(a, b) == Max(I64_MIN, Min(I64_MAX, a - b))

\* u128::checked_mul, u128::checked_add, u128::checked_sub
checked_mul_u128(a, b) ==
    IF b = 0 \/ a <= U128_MAX \div b THEN a * b ELSE None
checked_add_u128(a, b) == IF a <= U128_MAX - b THEN a + b ELSE None
checked_sub_u128(a, b) == IF a >= b THEN a - b ELSE None

\* u64::checked_add
checked_add_u64(a, b) == IF a <= U64_MAX - b THEN a + b ELSE None

\* `x as u64` of a u128
as_u64(x) == x % (2 ^ WordBits)

\* r_ps_fp = (apy_num * FP_ONE) / 10_000 / SECONDS_PER_YEAR
RateOf(apy_bps) == ((apy_bps * FP_ONE) \div BPS_DENOM) \div SECONDS_PER_YEAR

\* now_ts: clock.unix_timestamp.saturating_add(pool.time_offset)
now_ts(p, unix_timestamp) == saturating_add(unix_timestamp, p.time_offset)

\* ----------------------------------------------------------------- state
VARIABLES
    pool,         \* the Pool account
    user,         \* participant -> UserStake account
    vault,        \* token balance of the vault ATA
    wallet,       \* participant -> token balance of the participant's ATA
    clock,        \* Clock sysvar: unix_timestamp
    paid,         \* history: participant -> tokens moved vault -> participant by claim
    credited,     \* history: participant -> fixed-point reward added by settlements
    earned,       \* history: participant -> sum of amount_staked * accumulator growth
    distributed,  \* history: sum of increment * total_staked over pool settlements
    solo,         \* history: the running interval of a lone staker, if any
    due           \* history: participant -> reward due second by second

vars == <<pool, user, vault, wallet, clock, paid, credited, earned,
          distributed, solo, due>>

\* a Pool account before initialize_pool (zeroed account data)
ZeroPool ==
    [init |-> FALSE, admin |-> Admin, apy_bps |-> 0, lockup_seconds |-> 0,
     acc_reward_per_token_fp |-> 0, last_update_ts |-> 0,
     reward_rate_fp |-> 0, total_staked |-> 0, time_offset |-> 0]

\* a UserStake account before init_if_needed creates it (zeroed account data)
ZeroUser ==
    [exists |-> FALSE, amount_staked |-> 0, rewards_owed_fp |-> 0,
     user_entry_acc_rpt_fp |-> 0, stake_ts |-> 0]

\* the tokens minted to the participants before the pool exists
InitialWallet(p) == IF p = "A" THEN Supply - (Supply \div 2) ELSE Supply \div 2

NoSolo == [on |-> FALSE, who |-> "A", t0 |-> 0, base |-> 0]

Init ==
    /\ pool = ZeroPool
    /\ user = [p \in Participants |-> ZeroUser]
    /\ vault = 0
    /\ wallet = [p \in Participants |-> InitialWallet(p)]
    /\ clock = 0
    /\ paid = [p \in Participants |-> 0]
    /\ credited = [p \in Participants |-> 0]
    /\ earned = [p \in Participants |-> 0]
    /\ distributed = 0
    /\ solo = NoSolo
    /\ due = [p \in Participants |-> 0]

\* --------------------------------------------------------- reward engine
\* incr = (dt * reward_rate_fp * total_staked) / total_staked, None on overflow
\* a variant that shares the reward of the interval among the stake
PoolIncrement_Shared(dt, reward_rate_fp, total_staked) ==
    LET m1 == checked_mul_u128(dt, reward_rate_fp)
    IN  IF m1 = None THEN None ELSE m1 \div total_staked
PoolIncrement(dt, reward_rate_fp, total_staked) ==
    LET m1 == checked_mul_u128(dt, reward_rate_fp)
        added_fp == IF m1 = None THEN None
                    ELSE checked_mul_u128(m1, total_staked)
    IN  IF added_fp = None THEN None ELSE added_fp \div total_staked

\* a variant that returns early only when no time at all has passed
update_pool_rewards_SignedDt(p, unix_timestamp) ==
    LET now == now_ts(p, unix_timestamp)
        dt == saturating_sub(now, p.last_update_ts)
        incr == PoolIncrement(dt, p.reward_rate_fp, p.total_staked)
        acc == IF incr = None THEN None
               ELSE checked_add_u128(p.acc_reward_per_token_fp, incr)
    IN  IF dt = 0 THEN [err |-> "Ok", pool |-> p]
        ELSE IF p.total_staked = 0
        THEN [err |-> "Ok", pool |-> [p EXCEPT !.last_update_ts = now]]
        ELSE IF acc = None THEN [err |-> "Overflow", pool |-> p]
        ELSE [err |-> "Ok",
              pool |-> [p EXCEPT !.acc_reward_per_token_fp = acc,
                                 !.last_update_ts = now]]

\* a variant that accrues without advancing last_update_ts
update_pool_rewards_StaleTs(p, unix_timestamp) ==
    LET now == now_ts(p, unix_timestamp)
        dt == saturating_sub(now, p.last_update_ts)
        incr == PoolIncrement(dt, p.reward_rate_fp, p.total_staked)
        acc == IF incr = None THEN None
               ELSE checked_add_u128(p.acc_reward_per_token_fp, incr)
    IN  IF dt <= 0 THEN [err |-> "Ok", pool |-> p]
        ELSE IF p.total_staked = 0
        THEN [err |-> "Ok", pool |-> [p EXCEPT !.last_update_ts = now]]
        ELSE IF acc = None THEN [err |-> "Overflow", pool |-> p]
        ELSE [err |-> "Ok",
              pool |-> [p EXCEPT !.acc_reward_per_token_fp = acc]]

\* a variant that banks the time an empty pool lets pass
update_pool_rewards_Banked(p, unix_timestamp) ==
    LET now == now_ts(p, unix_timestamp)
        dt == saturating_sub(now, p.last_update_ts)
        incr == PoolIncrement(dt, p.reward_rate_fp, p.total_staked)
        acc == IF incr = None THEN None
               ELSE checked_add_u128(p.acc_reward_per_token_fp, incr)
    IN  IF dt <= 0 THEN [err |-> "Ok", pool |-> p]
        ELSE IF p.total_staked = 0 THEN [err |-> "Ok", pool |-> p]
        ELSE IF acc = None THEN [err |-> "Overflow", pool |-> p]
        ELSE [err |-> "Ok",
              pool |-> [p EXCEPT !.acc_reward_per_token_fp = acc,
                                 !.last_update_ts = now]]

update_pool_rewards(p, unix_timestamp) ==
    LET now == now_ts(p, unix_timestamp)
        dt == saturating_sub(now, p.last_update_ts)
        incr == PoolIncrement(dt, p.reward_rate_fp, p.total_staked)
        acc == IF incr = None THEN None
               ELSE checked_add_u128(p.acc_reward_per_token_fp, incr)
    IN  IF dt <= 0 THEN [err |-> "Ok", pool |-> p]
        ELSE IF p.total_staked = 0
        THEN [err |-> "Ok", pool |-> [p EXCEPT !.last_update_ts = now]]
        ELSE IF acc = None THEN [err |-> "Overflow", pool |-> p]
        ELSE [err |-> "Ok",
              pool |-> [p EXCEPT !.acc_reward_per_token_fp = acc,
                                 !.last_update_ts = now]]

\* a variant that credits the whole accumulator, not its growth
update_user_rewards_WholeAcc(u, p) ==
    LET pending == checked_mul_u128(u.amount_staked,
                                    p.acc_reward_per_token_fp)
        owed == IF pending = None THEN None
                ELSE checked_add_u128(u.rewards_owed_fp, pending)
    IN  IF owed = None THEN [err |-> "Overflow", user |-> u]
        ELSE [err |-> "Ok",
              user |-> [u EXCEPT !.rewards_owed_fp = owed,
                                 !.user_entry_acc_rpt_fp =
                                     p.acc_reward_per_token_fp]]

\* a variant that leaves the snapshot where it was
update_user_rewards_NoRebase(u, p) ==
    LET delta == checked_sub_u128(p.acc_reward_per_token_fp,
                                  u.user_entry_acc_rpt_fp)
        pending == IF delta = None THEN None
                   ELSE checked_mul_u128(u.amount_staked, delta)
        owed == IF pending = None THEN None
                ELSE checked_add_u128(u.rewards_owed_fp, pending)
    IN  IF delta = None THEN [err |-> "Underflow", user |-> u]
        ELSE IF owed = None THEN [err |-> "Overflow", user |-> u]
        ELSE [err |-> "Ok", user |-> [u EXCEPT !.rewards_owed_fp = owed]]

update_user_rewards(u, p) ==
    LET delta == checked_sub_u128(p.acc_reward_per_token_fp,
                                  u.user_entry_acc_rpt_fp)
        pending == IF delta = None THEN None
                   ELSE checked_mul_u128(u.amount_staked, delta)
        owed == IF pending = None THEN None
                ELSE checked_add_u128(u.rewards_owed_fp, pending)
    IN  IF delta = None THEN [err |-> "Underflow", user |-> u]
        ELSE IF owed = None THEN [err |-> "Overflow", user |-> u]
        ELSE [err |-> "Ok",
              user |-> [u EXCEPT !.rewards_owed_fp = owed,
                                 !.user_entry_acc_rpt_fp =
                                     p.acc_reward_per_token_fp]]

\* ------------------------------------------------------ transfer gateway
\* token::transfer moves `amount` out of a balance, or fails when the
\* balance is too small
CanTransfer(balance, amount) == balance >= amount

\* ---------------------------------------------------------- instructions
\* The outcome of an instruction on the accounts it is given: the result,
\* the Pool, the signer's UserStake, the vault and the signer's balance.
\* A failing instruction is rolled back as a whole by the runtime.
\* a variant in which the settlement's writes outlive the failure
Fail_Settled(who, e) ==
    [res |-> e, pool |-> update_pool_rewards(pool, clock).pool,
     urec |-> user[who], vault |-> vault, wal |-> wallet[who]]
Fail(who, e) ==
    [res |-> e, pool |-> pool, urec |-> user[who], vault |-> vault,
     wal |-> wallet[who]]

\* a variant that re-arms on every stake
StakeTsAfter_Always(u, now) == now
\* stake: the position is (re)armed only when it was empty
StakeTsAfter(u, now) == IF u.amount_staked = 0 THEN now ELSE u.stake_ts

stake(who, amount) ==
    LET sp == update_pool_rewards(pool, clock)
        u0 == [user[who] EXCEPT !.exists = TRUE]
        su == update_user_rewards(u0, sp.pool)
        now == now_ts(sp.pool, clock)
        staked == checked_add_u64(su.user.amount_staked, amount)
        total == checked_add_u64(sp.pool.total_staked, amount)
    IN  IF ~pool.init THEN Fail(who, "AccountNotInitialized")
        ELSE IF ~(amount > 0) THEN Fail(who, "ZeroAmount")
        ELSE IF sp.err # "Ok" THEN Fail(who, sp.err)
        ELSE IF su.err # "Ok" THEN Fail(who, su.err)
        ELSE IF ~CanTransfer(wallet[who], amount)
        THEN Fail(who, "InsufficientFunds")
        ELSE IF staked = None \/ total = None THEN Fail(who, "Overflow")
        ELSE [res |-> "Ok",
              pool |-> [sp.pool EXCEPT !.total_staked = total],
              urec |-> [su.user EXCEPT
                            !.stake_ts = StakeTsAfter(su.user, now),
                            !.amount_staked = staked],
              vault |-> vault + amount,
              wal |-> wallet[who] - amount]

\* claim: tokens_owed = (owed_fp / FP_ONE) as u64
TokensOwed(owed_fp) == as_u64(owed_fp \div FP_ONE)

\* claim: what is left of owed_fp after paying tokens_owed
\* a variant that clears the whole fixed-point balance
OwedAfterClaim_Cleared(owed_fp, tokens_owed) == 0
OwedAfterClaim(owed_fp, tokens_owed) == owed_fp - (tokens_owed * FP_ONE)

claim(who) ==
    LET sp == update_pool_rewards(pool, clock)
        su == update_user_rewards(user[who], sp.pool)
        owed_fp == su.user.rewards_owed_fp
        tokens_owed == TokensOwed(owed_fp)
    IN  IF ~pool.init \/ ~user[who].exists
        THEN Fail(who, "AccountNotInitialized")
        ELSE IF sp.err # "Ok" THEN Fail(who, sp.err)
        ELSE IF su.err # "Ok" THEN Fail(who, su.err)
        ELSE IF tokens_owed > 0
        THEN IF ~CanTransfer(vault, tokens_owed)
             THEN Fail(who, "InsufficientFunds")
             ELSE [res |-> "Ok", pool |-> sp.pool,
                   urec |-> [su.user EXCEPT !.rewards_owed_fp =
                                 OwedAfterClaim(owed_fp, tokens_owed)],
                   vault |-> vault - tokens_owed,
                   wal |-> wallet[who] + tokens_owed]
        ELSE [res |-> "Ok", pool |-> sp.pool, urec |-> su.user,
              vault |-> vault, wal |-> wallet[who]]

\* unstake: the lockup gate
LockupOk(p, u, now) ==
    \/ ~(p.lockup_seconds > 0)
    \/ saturating_sub(now, u.stake_ts) >= p.lockup_seconds

\* unstake: user.amount_staked - amount, pool.total_staked - amount
StakedAfterUnstake(amount_staked, amount) == amount_staked - amount
\* a variant that leaves the pool total as it was
TotalAfterUnstake_Kept(total_staked, amount) == total_staked
TotalAfterUnstake(total_staked, amount) == total_staked - amount

\* `pool.total_staked - amount` is an unchecked u64 subtraction: below zero
\* it panics when the build has overflow checks and wraps when it has not
unstake(who, amount, overflow_checks) ==
    LET now == now_ts(pool, clock)
        sp == update_pool_rewards(pool, clock)
        su == update_user_rewards(user[who], sp.pool)
        staked == StakedAfterUnstake(su.user.amount_staked, amount)
        total == TotalAfterUnstake(sp.pool.total_staked, amount)
    IN  IF ~pool.init \/ ~user[who].exists
        THEN Fail(who, "AccountNotInitialized")
        ELSE IF ~(amount > 0) THEN Fail(who, "ZeroAmount")
        ELSE IF ~LockupOk(pool, user[who], now) THEN Fail(who, "Lockup")
        ELSE IF sp.err # "Ok" THEN Fail(who, sp.err)
        ELSE IF su.err # "Ok" THEN Fail(who, su.err)
        ELSE IF ~(su.user.amount_staked >= amount)
        THEN Fail(who, "InsufficientStake")
        ELSE IF total < 0 /\ overflow_checks THEN Fail(who, "Panic")
        ELSE IF ~CanTransfer(vault, amount)
        THEN Fail(who, "InsufficientFunds")
        ELSE [res |-> "Ok",
              pool |-> [sp.pool EXCEPT !.total_staked =
                            total % (2 ^ WordBits)],
              urec |-> [su.user EXCEPT !.amount_staked = staked],
              vault |-> vault - amount,
              wal |-> wallet[who] + amount]

\* initialize_pool, set_params, set_time_offset: result and new Pool
initialize_pool(apy_bps, lockup_seconds, vault_ok) ==
    IF pool.init THEN [res |-> "AlreadyInUse", pool |-> pool]
    ELSE IF ~vault_ok THEN [res |-> "ConstraintRaw", pool |-> pool]
    ELSE IF ~(apy_bps <= MAX_APY_BPS)
    THEN [res |-> "InvalidParams", pool |-> pool]
    ELSE [res |-> "Ok",
          pool |-> [init |-> TRUE, admin |-> Admin, apy_bps |-> apy_bps,
                    lockup_seconds |-> lockup_seconds,
                    acc_reward_per_token_fp |-> 0,
                    last_update_ts |-> now_ts(pool, clock),
                    reward_rate_fp |-> RateOf(apy_bps),
                    total_staked |-> 0, time_offset |-> 0]]

\* a variant that assigns the new rate before it settles the pool
set_params_RateFirst(signer, apy_bps, lockup_seconds) ==
    LET sp == update_pool_rewards(
                  [pool EXCEPT !.reward_rate_fp = RateOf(apy_bps)], clock)
    IN  IF ~pool.init THEN [res |-> "AccountNotInitialized", pool |-> pool]
        ELSE IF pool.admin # signer
        THEN [res |-> "Unauthorized", pool |-> pool]
        ELSE IF ~(apy_bps <= MAX_APY_BPS)
        THEN [res |-> "InvalidParams", pool |-> pool]
        ELSE IF sp.err # "Ok" THEN [res |-> sp.err, pool |-> pool]
        ELSE [res |-> "Ok",
              pool |-> [sp.pool EXCEPT !.apy_bps = apy_bps,
                                       !.lockup_seconds = lockup_seconds,
                                       !.reward_rate_fp = RateOf(apy_bps)]]

\* a variant that does not compare the signer with pool.admin
set_params_AnySigner(signer, apy_bps, lockup_seconds) ==
    LET sp == update_pool_rewards(pool, clock)
    IN  IF ~pool.init THEN [res |-> "AccountNotInitialized", pool |-> pool]
        ELSE IF ~(apy_bps <= MAX_APY_BPS)
        THEN [res |-> "InvalidParams", pool |-> pool]
        ELSE IF sp.err # "Ok" THEN [res |-> sp.err, pool |-> pool]
        ELSE [res |-> "Ok",
              pool |-> [sp.pool EXCEPT !.apy_bps = apy_bps,
                                       !.lockup_seconds = lockup_seconds,
                                       !.reward_rate_fp = RateOf(apy_bps)]]

\* a variant that assigns apy_bps and keeps the rate it found
set_params_StaleRate(signer, apy_bps, lockup_seconds) ==
    LET sp == update_pool_rewards(pool, clock)
    IN  IF ~pool.init THEN [res |-> "AccountNotInitialized", pool |-> pool]
        ELSE IF pool.admin # signer
        THEN [res |-> "Unauthorized", pool |-> pool]
        ELSE IF ~(apy_bps <= MAX_APY_BPS)
        THEN [res |-> "InvalidParams", pool |-> pool]
        ELSE IF sp.err # "Ok" THEN [res |-> sp.err, pool |-> pool]
        ELSE [res |-> "Ok",
              pool |-> [sp.pool EXCEPT !.apy_bps = apy_bps,
                                       !.lockup_seconds = lockup_seconds]]

set_params(signer, apy_bps, lockup_seconds) ==
    LET sp == update_pool_rewards(pool, clock)
    IN  IF ~pool.init THEN [res |-> "AccountNotInitialized", pool |-> pool]
        ELSE IF pool.admin # signer
        THEN [res |-> "Unauthorized", pool |-> pool]
        ELSE IF ~(apy_bps <= MAX_APY_BPS)
        THEN [res |-> "InvalidParams", pool |-> pool]
        ELSE IF sp.err # "Ok" THEN [res |-> sp.err, pool |-> pool]
        ELSE [res |-> "Ok",
              pool |-> [sp.pool EXCEPT !.apy_bps = apy_bps,
                                       !.lockup_seconds = lockup_seconds,
                                       !.reward_rate_fp = RateOf(apy_bps)]]

\* a variant that settles the pool before it sets the offset
set_time_offset_Settles(signer, offset_seconds) ==
    IF ~pool.init THEN [res |-> "AccountNotInitialized", pool |-> pool]
    ELSE IF pool.admin # signer THEN [res |-> "Unauthorized", pool |-> pool]
    ELSE [res |-> "Ok",
          pool |-> [update_pool_rewards(pool, clock).pool
                        EXCEPT !.time_offset = offset_seconds]]

set_time_offset(signer, offset_seconds) ==
    IF ~pool.init THEN [res |-> "AccountNotInitialized", pool |-> pool]
    ELSE IF pool.admin # signer THEN [res |-> "Unauthorized", pool |-> pool]
    ELSE [res |-> "Ok", pool |-> [pool EXCEPT !.time_offset = offset_seconds]]

\* --------------------------------------------------------------- actions
\* the settlement every participant instruction starts with, in the current
\* state: update_pool_rewards, then update_user_rewards on the record
SettledPool == update_pool_rewards(pool, clock)
SettledUser(p) ==
    update_user_rewards([user[p] EXCEPT !.exists = TRUE], SettledPool.pool)
\* pending: what that settlement adds to the record's rewards_owed_fp
Pending(p) == SettledUser(p).user.rewards_owed_fp - user[p].rewards_owed_fp

\* pending, were the Pool account `p`
PendingAt(p, q) ==
    update_user_rewards([user[q] EXCEPT !.exists = TRUE],
                        update_pool_rewards(p, clock).pool)
        .user.rewards_owed_fp - user[q].rewards_owed_fp

\* the reward one more second brings a participant: none while the clock
\* is behind last_update_ts
SecondOf(q) ==
    IF now_ts(pool, clock) >= pool.last_update_ts
    THEN user[q].amount_staked * pool.reward_rate_fp
    ELSE 0

\* What a successful participant instruction with outcome `out` leaves
\* behind; a failing instruction is rolled back and leaves no step.  The
\* history variables record what the instruction did: the accumulator
\* growth it applied, the reward its settlement folded into rewards_owed_fp
\* and the tokens it moved out of the vault.
Commit(op, who, outcome) ==
    \E out \in {outcome} :
    LET incr == out.pool.acc_reward_per_token_fp
                    - pool.acc_reward_per_token_fp
        now == now_ts(out.pool, clock)
        cred == [credited EXCEPT ![who] = @ + Pending(who)]
    IN  /\ out.res = "Ok"
        /\ pool' = out.pool
        /\ user' = [user EXCEPT ![who] = out.urec]
        /\ vault' = out.vault
        /\ wallet' = [wallet EXCEPT ![who] = out.wal]
        /\ credited' = cred
        /\ earned' = [q \in Participants |->
                         earned[q] + (user[q].amount_staked * incr)]
        /\ distributed' = distributed + (incr * pool.total_staked)
        /\ paid' = IF op = "claim"
                   THEN [paid EXCEPT ![who] = @ + (vault - out.vault)]
                   ELSE paid
        /\ solo' = IF op = "claim" THEN solo
                   ELSE IF op = "stake" /\ pool.total_staked = 0
                           /\ out.pool.last_update_ts = now
                   THEN [on |-> TRUE, who |-> who, t0 |-> now,
                         base |-> cred[who]]
                   ELSE NoSolo
        /\ UNCHANGED <<clock, due>>

\* What a successful admin instruction with outcome `out` leaves behind.
CommitAdmin(op, outcome, keeps_solo) ==
    \E out \in {outcome} :
    LET incr == out.pool.acc_reward_per_token_fp
                    - pool.acc_reward_per_token_fp
    IN  /\ out.res = "Ok"
        /\ pool' = out.pool
        /\ earned' = [q \in Participants |->
                         earned[q] + (user[q].amount_staked * incr)]
        /\ distributed' = distributed + (incr * pool.total_staked)
        /\ solo' = IF keeps_solo THEN solo ELSE NoSolo
        /\ due' = IF op = "set_time_offset"
                  THEN [q \in Participants |->
                           credited[q] + PendingAt(out.pool, q)]
                  ELSE due
        /\ UNCHANGED <<user, vault, wallet, clock, paid, credited>>

InitializePool(apy_bps, lockup_seconds, vault_ok) ==
    CommitAdmin("initialize_pool",
                initialize_pool(apy_bps, lockup_seconds, vault_ok), TRUE)

Stake(who, amount) == Commit("stake", who, stake(who, amount))

Claim(who) == Commit("claim", who, claim(who))

Unstake(who, amount, overflow_checks) ==
    Commit("unstake", who, unstake(who, amount, overflow_checks))

SetParams(signer, apy_bps, lockup_seconds) ==
    CommitAdmin("set_params",
                set_params(signer, apy_bps, lockup_seconds),
                RateOf(apy_bps) = pool.reward_rate_fp)

SetTimeOffset(signer, offset_seconds) ==
    CommitAdmin("set_time_offset",
                set_time_offset(signer, offset_seconds), FALSE)

\* the wall clock advances; `due` counts the second at the rate and the
\* stakes the second begins with
Tick ==
    /\ clock < MaxClock
    /\ clock' = clock + 1
    /\ due' = [q \in Participants |-> due[q] + SecondOf(q)]
    /\ UNCHANGED <<pool, user, vault, wallet, paid, credited, earned,
                   distributed, solo>>

\* the build profiles that tell an unstake of `amount` apart: with or without
\* overflow checks where the unchecked subtraction would go below zero
Builds(amount) ==
    IF SettledPool.pool.total_staked < amount THEN BOOLEAN ELSE {TRUE}

Next ==
    \/ \E a \in ApySet, l \in LockupSet, v \in BOOLEAN : InitializePool(a, l, v)
    \/ \E p \in Participants, n \in Amounts : Stake(p, n)
    \/ \E p \in Participants : Claim(p)
    \/ \E p \in Participants, n \in Amounts :
           \E oc \in Builds(n) : Unstake(p, n, oc)
    \/ \E s \in Signers, a \in ApySet, l \in LockupSet : SetParams(s, a, l)
    \/ \E s \in Signers, o \in Offsets : SetTimeOffset(s, o)
    \/ Tick

Spec == Init /\ [][Next]_vars

\* ---------------------------------------------------- the settlement alone
\* update_pool_rewards applied on its own to the pools the field widths
\* allow: any total_staked of the word, held by one participant out of a
\* supply of U64_MAX tokens, at a rate derived from an accepted apy_bps.
SettleApys == {0, 7500, MAX_APY_BPS}
SettleAccs == {0, FP_ONE}

SettleInit ==
    \E a \in SettleApys, l \in LockupSet, t \in 0..U64_MAX,
       acc \in SettleAccs :
        /\ pool = [init |-> TRUE, admin |-> Admin, apy_bps |-> a,
                   lockup_seconds |-> l, acc_reward_per_token_fp |-> acc,
                   last_update_ts |-> 0, reward_rate_fp |-> RateOf(a),
                   total_staked |-> t, time_offset |-> 0]
        /\ user = [p \in Participants |->
                      IF p = "A"
                      THEN [exists |-> TRUE, amount_staked |-> t,
                            rewards_owed_fp |-> 0,
                            user_entry_acc_rpt_fp |-> acc, stake_ts |-> 0]
                      ELSE ZeroUser]
        /\ vault = t
        /\ wallet = [p \in Participants |->
                        IF p = "A" THEN Min(1, U64_MAX - t) ELSE 0]
        /\ clock = 0
        /\ paid = [p \in Participants |-> 0]
        /\ credited = [p \in Participants |-> 0]
        /\ earned = [p \in Participants |-> 0]
        /\ distributed = 0
        /\ solo = NoSolo
        /\ due = [p \in Participants |-> 0]

\* one call of update_pool_rewards on the Pool account
Settle ==
    LET sp == update_pool_rewards(pool, clock)
    IN  CommitAdmin("update_pool_rewards",
                    [res |-> sp.err, pool |-> sp.pool], TRUE)

SettleNext ==
    \/ Settle
    \/ \E s \in Signers, o \in Offsets : SetTimeOffset(s, o)
    \/ Tick

SettleSpec == SettleInit /\ [][SettleNext]_vars

\* ------------------------------------------------------- the rate changes
\* The program under an unwarped clock, with the admin moving apy_bps
\* between zero, a rate that accrues, and a value above the cap.
RateApys == {0, 7500, MAX_APY_BPS + 1}

RateNext ==
    \/ \E a \in RateApys, l \in LockupSet, v \in BOOLEAN :
           InitializePool(a, l, v)
    \/ \E p \in Participants, n \in Amounts : Stake(p, n)
    \/ \E p \in Participants : Claim(p)
    \/ \E p \in Participants, n \in Amounts :
           \E oc \in Builds(n) : Unstake(p, n, oc)
    \/ \E s \in Signers, a \in RateApys, l \in LockupSet : SetParams(s, a, l)
    \/ Tick

RateSpec == Init /\ [][RateNext]_vars

\* ------------------------------------------------------------ properties
\* the time the instructions read in the current state
Now == now_ts(pool, clock)

RECURSIVE SumOver(_, _)
SumOver(f, S) ==
    IF S = {} THEN 0
    ELSE LET x == CHOOSE y \in S : TRUE IN f[x] + SumOver(f, S \ {x})

\* sum of amount_staked over all participant records of the pool
SumStaked == SumOver([p \in Participants |-> user[p].amount_staked],
                     Participants)

\* C1: in every reachable state pool.total_staked equals the sum of
\* amount_staked over all participant records of the pool.
C1_TotalStakedIsSum == pool.total_staked = SumStaked

\* a participant staked and withdrew everything while another is staked
C1_Witness ==
    /\ user["A"].exists /\ user["A"].amount_staked = 0
    /\ user["B"].amount_staked = 1
    /\ pool.total_staked = 1

\* C2: the vault always holds at least pool.total_staked, so the transfer
\* of an unstake within the participant's stake never lacks funds.
C2_VaultCoversStake == vault >= pool.total_staked

\* reward a participant has earned and not yet settled
Unsettled(p) ==
    user[p].amount_staked
        * (pool.acc_reward_per_token_fp - user[p].user_entry_acc_rpt_fp)

\* C3: what settlements have credited to a participant, plus what its next
\* settlement will credit, is the sum over all accumulator growth of the
\* amount it had staked while the growth happened: reward only for the
\* intervals it was staked, whatever the others did.
C3_CreditFollowsOwnStake ==
    \A p \in Participants : credited[p] + Unsettled(p) = earned[p]

\* two participants with equal stakes that entered at different times have
\* been credited different, nonzero rewards
C3_Witness ==
    /\ user["A"].amount_staked = 1 /\ user["B"].amount_staked = 1
    /\ user["A"].stake_ts < user["B"].stake_ts
    /\ credited["B"] > 0
    /\ credited["A"] > credited["B"]

\* the outcomes of the participant instructions that succeed in the
\* current state
StakeOutcomes(p) ==
    {o \in {stake(p, n) : n \in Amounts} : o.res = "Ok"}
ClaimOutcomes(p) == {o \in {claim(p)} : o.res = "Ok"}
UnstakeOutcomes(p) ==
    {o \in {unstake(p, n, oc) : n \in Amounts, oc \in BOOLEAN} :
        o.res = "Ok"}
Outcomes(p) == StakeOutcomes(p) \cup ClaimOutcomes(p) \cup UnstakeOutcomes(p)

\* a step in which a stake of p succeeds
StakeDone(p) == \E n \in Amounts : Stake(p, n)

\* C5: tokens paid by claims, at FP_ONE each, plus the rewards_owed_fp that
\* remains, is the fixed-point reward settlements have credited; a claim
\* pays floor(rewards_owed_fp / FP_ONE) of the settled balance and takes
\* exactly that many FP_ONE off it.
C5_ClaimsKeepFraction ==
    \A p \in Participants :
        /\ (paid[p] * FP_ONE) + user[p].rewards_owed_fp = credited[p]
        /\ \A o \in ClaimOutcomes(p) :
              LET owed_fp == SettledUser(p).user.rewards_owed_fp
                  payout == vault - o.vault
              IN  /\ payout = owed_fp \div FP_ONE
                  /\ o.wal = wallet[p] + payout
                  /\ o.urec.rewards_owed_fp = owed_fp - (payout * FP_ONE)

\* a claim has paid and a fraction is still owed
C5_Witness ==
    \E p \in Participants :
        /\ paid[p] > 0
        /\ user[p].rewards_owed_fp > 0
        /\ user[p].rewards_owed_fp < FP_ONE

\* C6: over all participants, tokens paid plus rewards owed plus reward not
\* yet settled is what the pool accumulator has distributed.
C6_PaidPlusOwedIsDistributed ==
    SumOver([p \in Participants |->
                (paid[p] * FP_ONE) + user[p].rewards_owed_fp + Unsettled(p)],
            Participants) = distributed

\* one participant was paid and keeps a fraction while the other's reward
\* is still unsettled
C6_Witness ==
    \E p, q \in Participants :
        /\ p # q
        /\ paid[p] > 0 /\ user[p].rewards_owed_fp > 0
        /\ Unsettled(q) > 0

\* C4: while a participant is the pool's only staker at a constant rate,
\* a settlement of it leaves it credited, since it entered, with
\* amount_staked * elapsed seconds * reward_rate_fp, however many
\* settlements happened in between.
C4_LoneStakerReward ==
    solo.on =>
        LET p == solo.who
        IN  (SettledPool.err = "Ok" /\ SettledUser(p).err = "Ok") =>
                credited[p] + Pending(p) - solo.base
                    = user[p].amount_staked * (Now - solo.t0)
                          * pool.reward_rate_fp

\* a lone staker settled two seconds after it entered
C4_Witness ==
    /\ solo.on
    /\ Now = solo.t0 + 2
    /\ pool.reward_rate_fp > 0
    /\ user[solo.who].user_entry_acc_rpt_fp = pool.acc_reward_per_token_fp
    /\ credited[solo.who] - solo.base
           = user[solo.who].amount_staked * 2 * pool.reward_rate_fp

\* C7: no step lowers pool.acc_reward_per_token_fp.
C7_AccNonDecreasing ==
    [][pool'.acc_reward_per_token_fp >= pool.acc_reward_per_token_fp]_vars

\* the clock was moved back behind last_update_ts after reward accrued
C7_Witness ==
    /\ pool.acc_reward_per_token_fp > 0
    /\ pool.total_staked > 0
    /\ Now < pool.last_update_ts

\* C8: no snapshot is ahead of the accumulator, and a participant's
\* successful stake, claim or unstake leaves its snapshot equal to it.
C8_SnapshotFollowsAcc ==
    \A p \in Participants :
        /\ user[p].user_entry_acc_rpt_fp <= pool.acc_reward_per_token_fp
        /\ SettledPool.err = "Ok" => SettledUser(p).err # "Underflow"
        /\ \A o \in Outcomes(p) :
              o.urec.user_entry_acc_rpt_fp = o.pool.acc_reward_per_token_fp

\* one participant is settled at a grown accumulator, the other is behind
C8_Witness ==
    \E p, q \in Participants :
        /\ user[p].exists /\ user[q].exists
        /\ user[p].user_entry_acc_rpt_fp = pool.acc_reward_per_token_fp
        /\ user[q].user_entry_acc_rpt_fp < pool.acc_reward_per_token_fp
        /\ user[q].user_entry_acc_rpt_fp > 0

\* C9: with lockup_seconds = L > 0, an unstake of a positive amount within
\* the participant's stake fails with Lockup while now < stake_ts + L and
\* succeeds from now = stake_ts + L on; with lockup_seconds = 0 it is never
\* rejected with Lockup.
C9_LockupGate ==
    \A p \in Participants, n \in Amounts, oc \in BOOLEAN :
        (pool.init /\ user[p].exists /\ n > 0
                   /\ n <= user[p].amount_staked) =>
            IF pool.lockup_seconds > 0
            THEN IF Now < user[p].stake_ts + pool.lockup_seconds
                 THEN unstake(p, n, oc).res = "Lockup"
                 ELSE unstake(p, n, oc).res = "Ok"
            ELSE unstake(p, n, oc).res # "Lockup"

\* C10: a successful stake sets stake_ts to now when the position was empty
\* and leaves it alone otherwise; no other step changes stake_ts.
C10_StakeTsArmedOnEmpty ==
    /\ [](\A p \in Participants :
            /\ \A o \in StakeOutcomes(p) :
                  o.urec.stake_ts = IF user[p].amount_staked = 0
                                    THEN Now ELSE user[p].stake_ts
            /\ \A o \in ClaimOutcomes(p) \cup UnstakeOutcomes(p) :
                  o.urec.stake_ts = user[p].stake_ts)
    /\ [][\A p \in Participants :
             \/ user'[p].stake_ts = user[p].stake_ts
             \/ /\ user[p].amount_staked = 0
                /\ user'[p].stake_ts = Now
                /\ StakeDone(p)]_vars

\* a position was topped up after the second it was armed in
C10_Witness ==
    \E p \in Participants :
        /\ user[p].amount_staked = 2
        /\ user[p].stake_ts < pool.last_update_ts

\* C11: a rate change is prospective.  The reward a participant has been
\* credited plus what a settlement now would add is the sum, second by
\* second, of its stake times the rate in force during that second; and
\* set_params settles the elapsed time at the old rate, moves
\* last_update_ts to now and recomputes nothing.
C11_RateChangeProspective ==
    /\ \A p \in Participants :
          (SettledPool.err = "Ok" /\ SettledUser(p).err = "Ok") =>
              credited[p] + Pending(p) = due[p]
    /\ pool.init =>
          \A a \in SettleApys :
              \A out \in {set_params(Admin, a, pool.lockup_seconds)} :
                  LET elapsed == Max(0, Now - pool.last_update_ts)
                      growth == IF pool.total_staked > 0
                                THEN elapsed * pool.reward_rate_fp ELSE 0
                  IN  out.res = "Ok" =>
                          /\ out.pool.acc_reward_per_token_fp
                                 = pool.acc_reward_per_token_fp + growth
                          /\ out.pool.last_update_ts
                                 = Max(pool.last_update_ts, Now)

\* a participant staked for two seconds, the first at the old rate and the
\* second at the new rate of zero
C11_Witness ==
    \E p \in Participants :
        /\ user[p].amount_staked = 1 /\ user[p].stake_ts = 0
        /\ pool.time_offset = 0 /\ Now = 2
        /\ pool.reward_rate_fp = 0 /\ pool.last_update_ts = 1
        /\ credited[p] = RateOf(7500)
        /\ due[p] = RateOf(7500)

\* what update_pool_rewards makes of Pool account p at clock reading t
Resettled(p, t) == update_pool_rewards(p, t).pool

\* C14: update_pool_rewards is idempotent for a timestamp.  With
\* now = last_update_ts it changes no field of the pool, whatever
\* total_staked and the rate are, and so a second call right after a
\* successful one changes nothing.
C14_SettleIdempotent ==
    /\ Now = pool.last_update_ts =>
           update_pool_rewards(pool, clock) = [err |-> "Ok", pool |-> pool]
    /\ SettledPool.err = "Ok" =>
           update_pool_rewards(SettledPool.pool, clock)
               = [err |-> "Ok", pool |-> SettledPool.pool]

\* a pool with stake and a rate right after a settlement that accrued
C14_Witness ==
    /\ pool.total_staked > 0 /\ pool.reward_rate_fp > 0
    /\ clock > 0 /\ Now = pool.last_update_ts
    /\ pool.acc_reward_per_token_fp \notin SettleAccs

\* every call of a participant instruction, and of an admin instruction,
\* with the inputs of the model, failing ones included
Attempts(p) ==
    {stake(p, n) : n \in Amounts} \cup {claim(p)}
        \cup {unstake(p, n, oc) : n \in Amounts, oc \in BOOLEAN}
AdminAttempts ==
    {set_params(s, a, l) : s \in Signers, a \in ApySet, l \in LockupSet}
        \cup {set_time_offset(s, o) : s \in Signers, o \in Offsets}

C13_EmptyIntervalForfeited ==
    (pool.init /\ pool.total_staked = 0) =>
        /\ Now > pool.last_update_ts =>
               SettledPool = [err |-> "Ok",
                              pool |-> [pool EXCEPT !.last_update_ts = Now]]
        /\ \A p \in Participants : \A o \in StakeOutcomes(p) :
               /\ o.urec.rewards_owed_fp = user[p].rewards_owed_fp
               /\ o.pool.acc_reward_per_token_fp
                      = pool.acc_reward_per_token_fp
               /\ o.urec.user_entry_acc_rpt_fp
                      = pool.acc_reward_per_token_fp
               /\ o.pool.last_update_ts = Max(pool.last_update_ts, Now)

\* a participant staked two seconds after the other one had left the
\* pool empty, and has been credited nothing
C13_Witness ==
    \E p, q \in Participants :
        /\ user[q].exists /\ user[q].amount_staked = 0
        /\ user[q].stake_ts = 0
        /\ user[p].amount_staked = 1 /\ user[p].stake_ts = 2
        /\ pool.time_offset = 0 /\ pool.last_update_ts = 2
        /\ pool.reward_rate_fp > 0
        /\ pool.acc_reward_per_token_fp = 0
        /\ credited[p] = 0 /\ due[p] = 0

\* the apy_bps values on both sides of the cap
ApyProbe == RateApys \cup {MAX_APY_BPS}

\* C15: parameters are admin-gated and validated.  set_params by anyone
\* but pool.admin fails with Unauthorized; for the admin, and for
\* initialize_pool, an apy_bps above 10000 fails with InvalidParams and
\* 10000 passes; pool.apy_bps is never above 10000.
C15_ParamsGatedAndCapped ==
    /\ pool.apy_bps <= 10000
    /\ pool.init =>
          \A s \in Signers, a \in ApyProbe, l \in LockupSet :
              \A o \in {set_params(s, a, l)} :
                  /\ s # pool.admin => o.res = "Unauthorized"
                  /\ (s = pool.admin /\ a > 10000) =>
                         o.res = "InvalidParams"
                  /\ (s = pool.admin /\ a <= 10000) =>
                         /\ o.res \notin {"Unauthorized", "InvalidParams"}
                         /\ SettledPool.err = "Ok" =>
                                o.res = "Ok" /\ o.pool.apy_bps = a
    /\ ~pool.init =>
          \A a \in ApyProbe, l \in LockupSet :
              initialize_pool(a, l, TRUE).res
                  = IF a > 10000 THEN "InvalidParams" ELSE "Ok"

\* the admin has lowered the apy to zero after reward accrued, and the
\* pool turns away a participant and an apy_bps of 10001
C15_Witness ==
    /\ pool.init /\ pool.apy_bps = 0
    /\ pool.acc_reward_per_token_fp > 0
    /\ set_params("A", 0, 0).res = "Unauthorized"
    /\ set_params(Admin, 10001, 0).res = "InvalidParams"
    /\ set_params(Admin, 10000, 0).res = "Ok"

\* C16: set_time_offset adjusts the offset only.  Called by pool.admin it
\* succeeds and writes time_offset and no other Pool field; called by
\* anyone else it fails with Unauthorized; and a step that changes
\* time_offset changes no other Pool field, no UserStake and no balance.
C16_OffsetOnly ==
    /\ [](pool.init =>
            \A s \in Signers, o \in Offsets :
                set_time_offset(s, o)
                    = IF s = pool.admin
                      THEN [res |-> "Ok",
                            pool |-> [pool EXCEPT !.time_offset = o]]
                      ELSE [res |-> "Unauthorized", pool |-> pool])
    /\ [][pool'.time_offset # pool.time_offset =>
             /\ pool' = [pool EXCEPT !.time_offset = pool'.time_offset]
             /\ user' = user /\ vault' = vault /\ wallet' = wallet]_vars

\* the offset was set while elapsed time was waiting to be settled
C16_Witness ==
    /\ pool.time_offset # 0
    /\ pool.total_staked > 0 /\ pool.reward_rate_fp > 0
    /\ Now > pool.last_update_ts

\* C17: the double-width intermediate of update_pool_rewards is wide
\* enough.  For a rate derived from an accepted apy_bps, any total_staked
\* of the word and any elapsed time, dt * reward_rate_fp * total_staked
\* fits, so the settlement is not rejected with Overflow because time has
\* passed.
C17_IntermediateWideEnough ==
    LET dt == saturating_sub(Now, pool.last_update_ts)
    IN  (pool.init /\ pool.apy_bps <= MAX_APY_BPS /\ dt > 0
             /\ pool.total_staked > 0) =>
            /\ PoolIncrement(dt, pool.reward_rate_fp, pool.total_staked)
                   # None
            /\ SettledPool.err # "Overflow"

\* C18: in an initialized pool reward_rate_fp is
\* floor(floor(apy_bps * FP_ONE / 10000) / SECONDS_PER_YEAR) of the pool's
\* apy_bps; a step that changes either field is an admin instruction on
\* the parameters: it leaves every UserStake, every balance and
\* time_offset as they were.
C18_RateFollowsApy ==
    /\ [](pool.init =>
            pool.reward_rate_fp
                = ((pool.apy_bps * FP_ONE) \div 10000)
                      \div SECONDS_PER_YEAR)
    /\ [][(pool'.apy_bps # pool.apy_bps
              \/ pool'.reward_rate_fp # pool.reward_rate_fp) =>
             /\ user' = user /\ vault' = vault /\ wallet' = wallet
             /\ pool'.time_offset = pool.time_offset]_vars

\* the admin has raised the apy from zero: of the two seconds a participant
\* has been staked, one accrued
C18_Witness ==
    /\ pool.apy_bps = 7500 /\ pool.reward_rate_fp = RateOf(7500)
    /\ pool.time_offset = 0 /\ pool.last_update_ts = 2
    /\ pool.acc_reward_per_token_fp = RateOf(7500)
    /\ \E p \in Participants :
          user[p].amount_staked > 0 /\ user[p].stake_ts = 0

\* C19: last_update_ts never goes back and no reward accrues while the
\* clock is not ahead of it.  With now <= last_update_ts the settlement
\* changes nothing; otherwise it credits the time since last_update_ts,
\* whatever the clock read in between; and no step lowers last_update_ts.
C19_NoAccrualBehindLastUpdate ==
    /\ [](pool.init =>
            \A sp \in {SettledPool} :
                /\ Now <= pool.last_update_ts =>
                       sp = [err |-> "Ok", pool |-> pool]
                /\ (Now > pool.last_update_ts /\ sp.err = "Ok") =>
                       /\ sp.pool.last_update_ts = Now
                       /\ sp.pool.acc_reward_per_token_fp
                              = pool.acc_reward_per_token_fp
                                + (IF pool.total_staked > 0
                                   THEN (Now - pool.last_update_ts)
                                            * pool.reward_rate_fp
                                   ELSE 0))
    /\ [][pool'.last_update_ts >= pool.last_update_ts]_vars

\* the pool was settled at second 2 and the clock then moved back
C19_Witness ==
    /\ clock = 2 /\ pool.time_offset < 0
    /\ pool.last_update_ts = 2
    /\ pool.total_staked > 0 /\ pool.reward_rate_fp > 0
    /\ \E p \in Participants : user[p].rewards_owed_fp > 0

\* C20: the increment (dt * rate * total_staked) / total_staked is
\* dt * rate.  Whenever update_pool_rewards succeeds with stake and
\* elapsed time the accumulator grows by exactly dt * reward_rate_fp, for
\* every total_staked the product fits for; and settling now and again at
\* a later second leaves the pool that one settlement at the later second
\* leaves.
C20_IncrementIsRateTimesElapsed ==
    LET dt == saturating_sub(Now, pool.last_update_ts)
    IN  /\ (pool.total_staked > 0 /\ dt > 0 /\ SettledPool.err = "Ok") =>
               SettledPool.pool.acc_reward_per_token_fp
                   = pool.acc_reward_per_token_fp
                     + (dt * pool.reward_rate_fp)
        /\ dt > 0 =>
               \A t \in 1..U64_MAX :
                   PoolIncrement(dt, pool.reward_rate_fp, t)
                       \in {None, dt * pool.reward_rate_fp}
        /\ \A later \in clock..MaxClock :
               LET whole == update_pool_rewards(pool, later)
                   split == update_pool_rewards(Resettled(pool, clock),
                                                later)
               IN  (SettledPool.err = "Ok" /\ whole.err = "Ok"
                        /\ split.err = "Ok") =>
                       split.pool = whole.pool

\* a pool of several tokens, settled after the first of two seconds
C20_Witness ==
    /\ pool.total_staked > 1 /\ pool.reward_rate_fp > 0
    /\ pool.time_offset = 0
    /\ pool.last_update_ts = 1 /\ clock = 2
    /\ pool.acc_reward_per_token_fp
           \in {a + pool.reward_rate_fp : a \in SettleAccs}
    /\ SettledPool.err = "Ok"

====
